---- MODULE Spec2Model ----
(***************************************************************************)
(* Model of generate.py, the amalgamation script of sokol_input: it splits *)
(* src/sokol_input.h into three line buffers (lines 16-30) and writes the  *)
(* output header, expanding the #include lines of the middle buffer from   *)
(* the auxiliary files (lines 34-54).                                      *)
(*                                                                         *)
(* A text is a sequence of one-character strings; a file is the sequence   *)
(* of raw lines readlines() returns, every line but possibly the last      *)
(* ending in the line feed.                                                *)
(***************************************************************************)
EXTENDS Integers, Sequences, FiniteSets, TLC

VARIABLES
    primary,      \* raw lines of src/sokol_input.h, as readlines() returns them
    files,        \* the readable files under src/: path -> raw lines
    lines,        \* generate.py:5
    first_half,   \* generate.py:7
    middle_bits,  \* generate.py:8
    second_half,  \* generate.py:9
    state,        \* generate.py:16
    i,            \* position of the loop of line 17 (next line to classify)
    j,            \* position of the loop of line 36 (next middle line)
    aux,          \* the paths of the auxiliary files that are open
    out,          \* the text written to sokol_input.h so far
    log,          \* history of the fh.write calls, grouped by the statement making them
    opens,        \* history of the open calls of lines 40 and 45
    prev,         \* the outcomes of the earlier runs of the script on these inputs
    pc            \* position of the script

vars == <<primary, files, lines, first_half, middle_bits, second_half,
          state, i, j, aux, out, log, opens, prev, pc>>

-----------------------------------------------------------------------------
(* Bounds of the checked inputs *)

MaxPrimaryLen == 3
MaxFileLen == 2

-----------------------------------------------------------------------------
(* Characters and the literals of the script *)

NL == "\n"
Whitespace == {" ", "\t", "\n", "\r"}

INCLUDES_MARKER == <<"/", "/", " ", "I", "N", "C", "L", "U", "D", "E", "S">>
INCLUDE_PREFIX == <<"#", "i", "n", "c", "l", "u", "d", "e">>
GAMEPAD_PREFIX == INCLUDE_PREFIX \o <<" ", "\"", "g", "a", "m", "e", "p", "a", "d">>
GamepadH == <<"G", "a", "m", "e", "p", "a", "d", ".", "h">>
GamepadPrivateH == <<"G", "a", "m", "e", "p", "a", "d", "_", "p", "r", "i", "v", "a", "t", "e", ".", "h">>
GamepadPrivateC == <<"G", "a", "m", "e", "p", "a", "d", "_", "p", "r", "i", "v", "a", "t", "e", ".", "c">>
TRIGGER == GAMEPAD_PREFIX \o <<"/">> \o GamepadPrivateH \o <<"\"">>
raw_includes == {GamepadH, GamepadPrivateH, GamepadPrivateC}

-----------------------------------------------------------------------------
(* The string methods the script uses *)

RECURSIVE rstrip(_)
rstrip(s) ==
    IF s = <<>> THEN s
    ELSE IF s[Len(s)] \in Whitespace THEN rstrip(SubSeq(s, 1, Len(s) - 1))
    ELSE s

isspace(s) == s # <<>> /\ \A n \in 1..Len(s) : s[n] \in Whitespace

startswith(s, p) == Len(p) <= Len(s) /\ SubSeq(s, 1, Len(p)) = p

\* s.split(sep): the pieces of s between the occurrences of the character sep
RECURSIVE split(_, _)
split(s, sep) ==
    IF \A n \in 1..Len(s) : s[n] # sep THEN <<s>>
    ELSE LET n == CHOOSE n \in 1..Len(s) :
                      s[n] = sep /\ \A m \in 1..(n - 1) : s[m] # sep
         IN  <<SubSeq(s, 1, n - 1)>> \o split(SubSeq(s, n + 1, Len(s)), sep)

Last(seq) == seq[Len(seq)]

\* s[1:-1]
Inner(s) == IF Len(s) <= 2 THEN <<>> ELSE SubSeq(s, 2, Len(s) - 1)

\* the concatenation of a sequence of texts
RECURSIVE Flatten(_)
Flatten(ss) == IF ss = <<>> THEN <<>> ELSE Head(ss) \o Flatten(Tail(ss))

\* sep.join(ss)
RECURSIVE join(_, _)
join(sep, ss) ==
    IF ss = <<>> THEN <<>>
    ELSE IF Len(ss) = 1 THEN ss[1]
    ELSE ss[1] \o sep \o join(sep, Tail(ss))

-----------------------------------------------------------------------------
(* The inputs: the primary file and the files under src/ *)

BoundedSeq(S, n) == UNION {[1..m -> S] : m \in 0..n}

IncludeOf(p) == INCLUDE_PREFIX \o <<" ", "\"">> \o p \o <<"\"">>

OtherPath == <<"x", "/", "O", "t", "h", "e", "r", ".", "h">>
GamepadPath == <<"g", "a", "m", "e", "p", "a", "d", "/">> \o GamepadH
MissingPath == <<"x", "/", "M", ".", "h">>
MissingRawPath == <<"y", "/">> \o GamepadPrivateC

\* the line contents a primary file is made of: a plain line with trailing
\* whitespace, the marker, the empty line, and includes of a file that is not
\* in raw_includes, of one that is, and of two files that do not exist
PrimaryAlphabet ==
    { <<"A", " ">>, INCLUDES_MARKER, <<>>,
      IncludeOf(OtherPath), IncludeOf(GamepadPath),
      IncludeOf(MissingPath), IncludeOf(MissingRawPath) }

\* the line contents an auxiliary file is made of
FileAlphabet == { TRIGGER, <<"t", "a", "i", "l", "1">>, IncludeOf(GamepadPath) }

ScenarioPrimary == << <<"A">>, INCLUDES_MARKER, IncludeOf(OtherPath), <<>>, <<"Z">> >>
ScenarioOther == << TRIGGER, <<"t", "a", "i", "l", "1">>, <<"t", "a", "i", "l", "2">> >>

\* every line ends in the line feed
Terminated(ls) == [n \in 1..Len(ls) |-> ls[n] \o <<NL>>]
\* the last line does not
Unterminated(ls) == [n \in 1..Len(ls) |-> IF n = Len(ls) THEN ls[n] ELSE ls[n] \o <<NL>>]

PrimaryFiles ==
    { Terminated(ls) : ls \in BoundedSeq(PrimaryAlphabet, MaxPrimaryLen) \cup {ScenarioPrimary} }

FileContents ==
    LET ls == BoundedSeq(FileAlphabet, MaxFileLen) \cup {ScenarioOther}
    IN  {Terminated(c) : c \in ls} \cup {Unterminated(c) : c \in ls}

FileSystems == { [p \in {OtherPath, GamepadPath} |-> c] : c \in FileContents }

\* More inputs: lines with trailing whitespace, a whitespace-only line, an
\* include whose tokens a tab separates, and includes of two more readable
\* files: Gamepad.h in another directory, and a file whose name only ends in
\* a name of raw_includes
YGamepadPath == <<"y", "/">> \o GamepadH
NearPath == <<"x", "/", "M", "y">> \o GamepadH
TabInclude == INCLUDE_PREFIX \o <<"\t", "\"">> \o OtherPath \o <<"\"">>

WideAlphabet ==
    { INCLUDES_MARKER, INCLUDES_MARKER \o <<" ">>, <<>>, <<" ", "\t">>,
      <<"Z", " ", "\t">>, TabInclude, IncludeOf(YGamepadPath), IncludeOf(NearPath) }

WidePrimary ==
    << <<"Z", " ", "\t">>, INCLUDES_MARKER \o <<" ">>, IncludeOf(YGamepadPath),
       <<" ", "\t">>, <<"Z", " ", "\t">> >>

WidePrimaryFiles ==
    { Terminated(ls) : ls \in BoundedSeq(WideAlphabet, MaxPrimaryLen) \cup {WidePrimary} }

WideFileSystems ==
    { [p \in {OtherPath, YGamepadPath, NearPath} |-> c] : c \in FileContents }

-----------------------------------------------------------------------------
(* The pure parts of the script *)

\* Classify, but the blank line that ends the block is kept, in second_half
ClassifyKeepsBlank(st, line) ==
    CASE st = "FIRST_HALF" ->
             IF line = INCLUDES_MARKER
             THEN [state |-> "MIDDLE", into |-> "none"]
             ELSE [state |-> st, into |-> "first_half"]
      [] st = "MIDDLE" ->
             IF line = <<>> \/ isspace(line)
             THEN [state |-> "SECOND_HALF", into |-> "second_half"]
             ELSE [state |-> st, into |-> "middle_bits"]
      [] st = "SECOND_HALF" ->
             [state |-> st, into |-> "second_half"]

\* Classify, but a blank line ends FIRST_HALF as the marker does
ClassifyBlankLeaves(st, line) ==
    CASE st = "FIRST_HALF" ->
             IF line = INCLUDES_MARKER \/ line = <<>> \/ isspace(line)
             THEN [state |-> "MIDDLE", into |-> "none"]
             ELSE [state |-> st, into |-> "first_half"]
      [] st = "MIDDLE" ->
             IF line = <<>> \/ isspace(line)
             THEN [state |-> "SECOND_HALF", into |-> "none"]
             ELSE [state |-> st, into |-> "middle_bits"]
      [] st = "SECOND_HALF" ->
             [state |-> st, into |-> "second_half"]

\* Classify, but a marker line in SECOND_HALF opens a new block
ClassifyReenters(st, line) ==
    CASE st = "FIRST_HALF" ->
             IF line = INCLUDES_MARKER
             THEN [state |-> "MIDDLE", into |-> "none"]
             ELSE [state |-> st, into |-> "first_half"]
      [] st = "MIDDLE" ->
             IF line = <<>> \/ isspace(line)
             THEN [state |-> "SECOND_HALF", into |-> "none"]
             ELSE [state |-> st, into |-> "middle_bits"]
      [] st = "SECOND_HALF" ->
             IF line = INCLUDES_MARKER
             THEN [state |-> "MIDDLE", into |-> "none"]
             ELSE [state |-> st, into |-> "second_half"]

\* lines 18-30: the new state and the buffer the line is appended to
Classify(st, line) ==
    CASE st = "FIRST_HALF" ->
             IF line = INCLUDES_MARKER
             THEN [state |-> "MIDDLE", into |-> "none"]
             ELSE [state |-> st, into |-> "first_half"]
      [] st = "MIDDLE" ->
             IF line = <<>> \/ isspace(line)
             THEN [state |-> "SECOND_HALF", into |-> "none"]
             ELSE [state |-> st, into |-> "middle_bits"]
      [] st = "SECOND_HALF" ->
             [state |-> st, into |-> "second_half"]

\* IsInclude, but of the gamepad includes only
IsIncludeGamepadOnly(line) == startswith(line, GAMEPAD_PREFIX)

\* line 37
IsInclude(line) == startswith(line, INCLUDE_PREFIX)

\* line 38: path = line.split(" ")[-1][1:-1]
PathOf(line) == Inner(Last(split(line, " ")))

\* line 39: path.split("/")[-1] in raw_includes
Basename(path) == Last(split(path, "/"))

\* IsRaw, but of every path that ends in a name of raw_includes
IsRawBySuffix(path) ==
    \E r \in raw_includes :
        Len(r) <= Len(path) /\ SubSeq(path, Len(path) - Len(r) + 1, Len(path)) = r

IsRaw(path) == Basename(path) \in raw_includes

\* open("src/" + path, "r") succeeds
Readable(path) == path \in DOMAIN files

\* RawCopy, but nothing is dropped
RawCopyUnfiltered(flines) == flines

\* RawCopy, but only the trigger line is dropped
RawCopyDropsTrigger(flines) == SelectSeq(flines, LAMBDA l : rstrip(l) # TRIGGER)

\* lines 41-43: the lines the first pass writes
RawCopy(flines) == SelectSeq(flines, LAMBDA l : ~startswith(l, GAMEPAD_PREFIX))

\* SuffixFrom, but the line is compared with its line feed on
RECURSIVE SuffixFromUnstripped(_, _)
SuffixFromUnstripped(flines, start_writing) ==
    IF flines = <<>> THEN <<>>
    ELSE IF ~start_writing
         THEN SuffixFromUnstripped(Tail(flines), Head(flines) = TRIGGER)
         ELSE <<Head(flines)>> \o SuffixFromUnstripped(Tail(flines), TRUE)

\* lines 46-51: the lines the second pass writes, start_writing being the flag
RECURSIVE SuffixFrom(_, _)
SuffixFrom(flines, start_writing) ==
    IF flines = <<>> THEN <<>>
    ELSE IF ~start_writing
         THEN SuffixFrom(Tail(flines), rstrip(Head(flines)) = TRIGGER)
         ELSE <<Head(flines)>> \o SuffixFrom(Tail(flines), TRUE)

\* SuffixCopy, but the trigger line is written too
RECURSIVE SuffixCopyKeepsTrigger(_)
SuffixCopyKeepsTrigger(flines) ==
    IF flines = <<>> THEN <<>>
    ELSE IF rstrip(Head(flines)) = TRIGGER THEN flines
    ELSE SuffixCopyKeepsTrigger(Tail(flines))

\* SuffixCopy, but a file without the trigger line is written whole
SuffixCopyWholeIfMissing(flines) ==
    IF \E n \in 1..Len(flines) : rstrip(flines[n]) = TRIGGER
    THEN SuffixFrom(flines, FALSE)
    ELSE flines

SuffixCopy(flines) == SuffixFrom(flines, FALSE)

\* line 35
HeadText(fh) == join(<<NL>>, fh) \o <<NL>>

\* line 53
PlainText(line) == line \o <<NL>>

\* TailText, but without the line feed before the lines
TailTextNoSeparator(sh) == join(<<NL>>, sh)

\* line 54
TailText(sh) == <<NL>> \o join(<<NL>>, sh)

Written(kind, idx, writes) == [kind |-> kind, idx |-> idx, writes |-> writes]

\* an open call of line 40 or 45, made for the middle line idx
Opened(idx, path) == [idx |-> idx, path |-> path, ok |-> Readable(path)]

\* the end of a with block: the file opened last is closed
Closed(handles) == SubSeq(handles, 1, Len(handles) - 1)

-----------------------------------------------------------------------------
(* The script, step by step *)

Init ==
    /\ primary \in PrimaryFiles
    /\ files \in FileSystems
    /\ lines = <<>>
    /\ first_half = <<>>
    /\ middle_bits = <<>>
    /\ second_half = <<>>
    /\ state = "FIRST_HALF"
    /\ i = 1
    /\ j = 1
    /\ aux = <<>>
    /\ out = <<>>
    /\ log = <<>>
    /\ opens = <<>>
    /\ prev = <<>>
    /\ pc = "read"

\* ReadPrimary, but only the line feed is stripped
ReadPrimaryKeepsSpaces ==
    /\ pc = "read"
    /\ lines' = [n \in 1..Len(primary) |->
                     IF primary[n] # <<>> /\ Last(primary[n]) = NL
                     THEN SubSeq(primary[n], 1, Len(primary[n]) - 1)
                     ELSE primary[n]]
    /\ pc' = "scan"
    /\ UNCHANGED <<primary, files, first_half, middle_bits, second_half,
                   state, i, j, aux, out, log, opens, prev>>

\* lines 4-5
ReadPrimary ==
    /\ pc = "read"
    /\ lines' = [n \in 1..Len(primary) |-> rstrip(primary[n])]
    /\ pc' = "scan"
    /\ UNCHANGED <<primary, files, first_half, middle_bits, second_half,
                   state, i, j, aux, out, log, opens, prev>>

\* lines 17-30: one iteration of the loop
ScanLine ==
    /\ pc = "scan"
    /\ i <= Len(lines)
    /\ LET c == Classify(state, lines[i])
       IN  /\ state' = c.state
           /\ first_half' = IF c.into = "first_half"
                            THEN Append(first_half, lines[i]) ELSE first_half
           /\ middle_bits' = IF c.into = "middle_bits"
                             THEN Append(middle_bits, lines[i]) ELSE middle_bits
           /\ second_half' = IF c.into = "second_half"
                             THEN Append(second_half, lines[i]) ELSE second_half
    /\ i' = i + 1
    /\ UNCHANGED <<primary, files, lines, j, aux, out, log, opens, prev, pc>>

\* WriteHead, but the output file is opened for appending
WriteHeadAppends ==
    /\ pc = "scan"
    /\ i > Len(lines)
    /\ out' = out \o HeadText(first_half)
    /\ log' = Append(log, Written("head", 0, <<HeadText(first_half)>>))
    /\ pc' = "block"
    /\ UNCHANGED <<primary, files, lines, first_half, middle_bits, second_half,
                   state, i, j, aux, opens, prev>>

\* lines 34-35: open(..., "w+") empties the output file
WriteHead ==
    /\ pc = "scan"
    /\ i > Len(lines)
    /\ out' = HeadText(first_half)
    /\ log' = Append(log, Written("head", 0, <<HeadText(first_half)>>))
    /\ pc' = "block"
    /\ UNCHANGED <<primary, files, lines, first_half, middle_bits, second_half,
                   state, i, j, aux, opens, prev>>

\* lines 36-37, 52-53: a line that is no include
WritePlain ==
    /\ pc = "block"
    /\ j <= Len(middle_bits)
    /\ ~IsInclude(middle_bits[j])
    /\ out' = out \o PlainText(middle_bits[j])
    /\ log' = Append(log, Written("plain", j, <<PlainText(middle_bits[j])>>))
    /\ j' = j + 1
    /\ UNCHANGED <<primary, files, lines, first_half, middle_bits, second_half,
                   state, i, aux, opens, prev, pc>>

\* lines 36-40: an include of a file of raw_includes; the first open
OpenRaw ==
    /\ pc = "block"
    /\ j <= Len(middle_bits)
    /\ IsInclude(middle_bits[j])
    /\ \E path \in {PathOf(middle_bits[j])} :
           /\ IsRaw(path)
           /\ opens' = Append(opens, Opened(j, path))
           /\ aux' = IF Readable(path) THEN Append(aux, path) ELSE aux
           /\ pc' = IF Readable(path) THEN "raw" ELSE "error"
    /\ UNCHANGED <<primary, files, lines, first_half, middle_bits, second_half,
                   state, i, j, out, log, prev>>

\* CopyRaw, but the file stays open
CopyRawLeavesOpen ==
    /\ pc = "raw"
    /\ LET w == RawCopy(files[Last(aux)])
       IN  /\ out' = out \o Flatten(w)
           /\ log' = Append(log, Written("raw", j, w))
    /\ pc' = "reopen"
    /\ UNCHANGED <<primary, files, lines, first_half, middle_bits, second_half,
                   state, i, j, aux, opens, prev>>

\* lines 41-43, and the close at the end of the with block
CopyRaw ==
    /\ pc = "raw"
    /\ LET w == RawCopy(files[Last(aux)])
       IN  /\ out' = out \o Flatten(w)
           /\ log' = Append(log, Written("raw", j, w))
    /\ aux' = Closed(aux)
    /\ pc' = "reopen"
    /\ UNCHANGED <<primary, files, lines, first_half, middle_bits, second_half,
                   state, i, j, opens, prev>>

\* OpenSuffix, but an include whose file cannot be opened is passed over
OpenSuffixSkips ==
    /\ pc \in {"block", "reopen"}
    /\ j <= Len(middle_bits)
    /\ IsInclude(middle_bits[j])
    /\ \E path \in {PathOf(middle_bits[j])} :
           /\ pc = "block" => ~IsRaw(path)
           /\ opens' = Append(opens, Opened(j, path))
           /\ aux' = IF Readable(path) THEN Append(aux, path) ELSE aux
           /\ pc' = IF Readable(path) THEN "suffix" ELSE "block"
           /\ j' = IF Readable(path) THEN j ELSE j + 1
    /\ UNCHANGED <<primary, files, lines, first_half, middle_bits, second_half,
                   state, i, out, log, prev>>

\* lines 44-45: the open of the second pass, of every include
OpenSuffix ==
    /\ pc \in {"block", "reopen"}
    /\ j <= Len(middle_bits)
    /\ IsInclude(middle_bits[j])
    /\ \E path \in {PathOf(middle_bits[j])} :
           /\ pc = "block" => ~IsRaw(path)
           /\ opens' = Append(opens, Opened(j, path))
           /\ aux' = IF Readable(path) THEN Append(aux, path) ELSE aux
           /\ pc' = IF Readable(path) THEN "suffix" ELSE "error"
    /\ UNCHANGED <<primary, files, lines, first_half, middle_bits, second_half,
                   state, i, j, out, log, prev>>

\* CopySuffix, but the loop of line 36 does not move on to the next line
CopySuffixRepeats ==
    /\ pc = "suffix"
    /\ LET w == SuffixCopy(files[Last(aux)])
       IN  /\ out' = out \o Flatten(w)
           /\ log' = Append(log, Written("suffix", j, w))
    /\ aux' = Closed(aux)
    /\ pc' = "block"
    /\ UNCHANGED <<primary, files, lines, first_half, middle_bits, second_half,
                   state, i, j, opens, prev>>

\* lines 46-51, and the close at the end of the with block
CopySuffix ==
    /\ pc = "suffix"
    /\ LET w == SuffixCopy(files[Last(aux)])
       IN  /\ out' = out \o Flatten(w)
           /\ log' = Append(log, Written("suffix", j, w))
    /\ aux' = Closed(aux)
    /\ j' = j + 1
    /\ pc' = "block"
    /\ UNCHANGED <<primary, files, lines, first_half, middle_bits, second_half,
                   state, i, opens, prev>>

\* line 54
WriteTail ==
    /\ pc = "block"
    /\ j > Len(middle_bits)
    /\ out' = out \o TailText(second_half)
    /\ log' = Append(log, Written("tail", 0, <<TailText(second_half)>>))
    /\ pc' = "done"
    /\ UNCHANGED <<primary, files, lines, first_half, middle_bits, second_half,
                   state, i, j, aux, opens, prev>>

Next ==
    \/ ReadPrimary
    \/ ScanLine
    \/ WriteHead
    \/ WritePlain
    \/ OpenRaw
    \/ CopyRaw
    \/ OpenSuffix
    \/ CopySuffix
    \/ WriteTail

Spec == Init /\ [][Next]_vars

\* the script on the wider inputs
InitWide ==
    /\ primary \in WidePrimaryFiles
    /\ files \in WideFileSystems
    /\ lines = <<>>
    /\ first_half = <<>>
    /\ middle_bits = <<>>
    /\ second_half = <<>>
    /\ state = "FIRST_HALF"
    /\ i = 1
    /\ j = 1
    /\ aux = <<>>
    /\ out = <<>>
    /\ log = <<>>
    /\ opens = <<>>
    /\ prev = <<>>
    /\ pc = "read"

SpecWide == InitWide /\ [][Next]_vars

\* the script is run a second time: the process of the first run is gone, the
\* input files and the output file it left are as they are
Rerun ==
    /\ pc \in {"done", "error"}
    /\ prev = <<>>
    /\ prev' = Append(prev, [pc |-> pc, out |-> out])
    /\ lines' = <<>>
    /\ first_half' = <<>>
    /\ middle_bits' = <<>>
    /\ second_half' = <<>>
    /\ state' = "FIRST_HALF"
    /\ i' = 1
    /\ j' = 1
    /\ aux' = <<>>
    /\ log' = <<>>
    /\ opens' = <<>>
    /\ pc' = "read"
    /\ UNCHANGED <<primary, files, out>>

NextTwice == Next \/ Rerun

SpecTwice == Init /\ [][NextTwice]_vars

-----------------------------------------------------------------------------
(* What the claims speak of *)

\* the lines of a text: its pieces between line feeds, the empty piece after a
\* final line feed not being a line
TextLines(t) ==
    LET ps == split(t, NL)
    IN  IF Last(ps) = <<>> THEN SubSeq(ps, 1, Len(ps) - 1) ELSE ps

\* the text of one entry of log, and of a sequence of entries
RECURSIVE TextOf(_)
TextOf(es) == IF es = <<>> THEN <<>> ELSE Flatten(Head(es).writes) \o TextOf(Tail(es))

\* what the loop of line 36 has written
Expansion == TextOf(SelectSeq(log, LAMBDA e : e.kind \in {"plain", "raw", "suffix"}))

Opt(b, x) == IF b THEN <<x>> ELSE <<>>

NoMarker == \A n \in 1..Len(lines) : lines[n] # INCLUDES_MARKER

\* the positions of the lines of a file that are the trigger line
TriggerAt(F) == {n \in 1..Len(F) : rstrip(F[n]) = TRIGGER}
FirstTrigger(F) == CHOOSE n \in TriggerAt(F) : \A m \in TriggerAt(F) : n <= m

\* the positions of the lines of a file that start with #include "gamepad
StrippedAt(F) == {n \in 1..Len(F) : startswith(F[n], GAMEPAD_PREFIX)}

\* the file the entry of log was copied from, and whether its include names a
\* file of raw_includes
FileOf(e) == files[PathOf(middle_bits[e.idx])]
OfRawInclude(e) == Last(split(PathOf(middle_bits[e.idx]), "/")) \in raw_includes

-----------------------------------------------------------------------------
(* C1: at every point of the pass over the primary file, the lines classified
   so far are exactly first_half, then the marker line if it was seen, then
   middle_bits, then the blank line that ended the block if it was seen, then
   second_half: nothing is lost, duplicated or reordered, and after the pass
   this is the whole of lines. *)
C1_PartitionTotality ==
    pc # "read" =>
        /\ SubSeq(lines, 1, i - 1) =
               first_half \o Opt(state # "FIRST_HALF", INCLUDES_MARKER)
                   \o middle_bits \o Opt(state = "SECOND_HALF", <<>>)
                   \o second_half
        /\ pc # "scan" => i = Len(lines) + 1

C1_Witness ==
    /\ pc = "done"
    /\ state = "SECOND_HALF"
    /\ first_half # <<>> /\ middle_bits # <<>> /\ second_half # <<>>

(* C2: if no line equals the marker, the pass never leaves FIRST_HALF, blank
   lines included; after it first_half is the whole of lines and the other two
   buffers are empty, and the run does not end in an error. *)
C2_NoMarkerFallback ==
    (pc # "read" /\ NoMarker) =>
        /\ state = "FIRST_HALF"
        /\ first_half = SubSeq(lines, 1, i - 1)
        /\ middle_bits = <<>> /\ second_half = <<>>
        /\ pc # "error"
        /\ pc # "scan" => first_half = lines

C2_Witness ==
    /\ pc = "done"
    /\ NoMarker
    /\ Len(lines) >= 2
    /\ \E n \in 1..Len(lines) : lines[n] = <<>>
    /\ first_half = lines

(* C3, as claimed: the lines of the output are the lines of first_half, the
   lines of the expansion and the lines of second_half, and no other line. *)
C3_Original ==
    pc = "done" => TextLines(out) = first_half \o TextLines(Expansion) \o second_half

(* C3, amended: the output text is the lines of first_half, each followed by
   a line feed (a lone line feed when first_half is empty), then the expansion,
   then one line feed, then the lines of second_half joined by line feeds. *)
C3_OutputComposition ==
    pc = "done" =>
        out = (IF first_half = <<>> THEN <<NL>>
               ELSE Flatten([n \in 1..Len(first_half) |-> first_half[n] \o <<NL>>]))
              \o Expansion
              \o <<NL>>
              \o join(<<NL>>, second_half)

C3_Witness ==
    /\ pc = "done"
    /\ first_half # <<>> /\ Expansion # <<>> /\ second_half # <<>>
    /\ TextLines(out) # first_half \o TextLines(Expansion) \o second_half

ScenarioRun ==
    /\ primary = Terminated(ScenarioPrimary)
    /\ files[OtherPath] \in {Terminated(ScenarioOther), Unterminated(ScenarioOther)}

ScenarioTail1 == <<"t", "a", "i", "l", "1">>
ScenarioTail2 == <<"t", "a", "i", "l", "2">>

(* C4, as claimed: in the scenario the output lines are A, tail1, tail2, Z. *)
C4_Original ==
    (ScenarioRun /\ pc = "done") =>
        TextLines(out) = << <<"A">>, ScenarioTail1, ScenarioTail2, <<"Z">> >>

(* C4, amended: in the scenario the output lines are A, tail1, tail2, an empty
   line, Z when Other.h ends in a line feed, and A, tail1, tail2, Z when its
   last line has none; the marker, include and trigger lines are not written. *)
C4_Scenario ==
    (ScenarioRun /\ pc = "done") =>
        TextLines(out) =
            IF files[OtherPath] = Terminated(ScenarioOther)
            THEN << <<"A">>, ScenarioTail1, ScenarioTail2, <<>>, <<"Z">> >>
            ELSE << <<"A">>, ScenarioTail1, ScenarioTail2, <<"Z">> >>

C4_Witness ==
    /\ ScenarioRun
    /\ pc = "done"
    /\ files[OtherPath] = Terminated(ScenarioOther)

(* C5: for an include of a file that is not in raw_includes, what is written
   for it is one pass: the lines of the file after its first trigger line, all
   of them and in order, later trigger lines included; nothing if the file has
   no trigger line. What is logged is what the output holds. *)
C5_GenericSuffix ==
    /\ out = TextOf(log)
    /\ \A n \in 1..Len(log) :
           (log[n].kind = "suffix" /\ ~OfRawInclude(log[n])) =>
               LET F == FileOf(log[n])
               IN  /\ log[n].writes =
                          IF TriggerAt(F) = {} THEN <<>>
                          ELSE SubSeq(F, FirstTrigger(F) + 1, Len(F))
                   /\ \A m \in 1..Len(log) : log[m].idx = log[n].idx => m = n

C5_Witness ==
    \E n \in 1..Len(log) :
        /\ log[n].kind = "suffix" /\ ~OfRawInclude(log[n])
        /\ TriggerAt(FileOf(log[n])) # {}
        /\ FirstTrigger(FileOf(log[n])) < Len(FileOf(log[n]))
        /\ \E m \in 1..Len(log[n].writes) : rstrip(log[n].writes[m]) = TRIGGER

(* C6: for an include of a file of raw_includes with N lines and its first
   trigger line at 0-indexed k, what is written for it is the filtered copy
   immediately followed by the lines after k: (N - stripped) + (N - k - 1)
   lines, stripped counting the lines that start with #include "gamepad. *)
C6_DualEmission ==
    \A n \in 1..Len(log) :
        (log[n].kind = "suffix" /\ OfRawInclude(log[n])
            /\ TriggerAt(FileOf(log[n])) # {}) =>
            LET F == FileOf(log[n])
                N == Len(F)
                k == FirstTrigger(F) - 1
            IN  /\ n > 1
                /\ log[n - 1].kind = "raw" /\ log[n - 1].idx = log[n].idx
                /\ \A m \in 1..Len(log) : log[m].idx = log[n].idx => m \in {n - 1, n}
                /\ log[n].writes = SubSeq(F, k + 2, N)
                /\ Len(log[n - 1].writes) + Len(log[n].writes)
                       = (N - Cardinality(StrippedAt(F))) + (N - k - 1)

C6_Witness ==
    \E n \in 1..Len(log) :
        /\ log[n].kind = "suffix" /\ OfRawInclude(log[n])
        /\ TriggerAt(FileOf(log[n])) # {}
        /\ Cardinality(StrippedAt(FileOf(log[n]))) >= 1
        /\ FirstTrigger(FileOf(log[n])) < Len(FileOf(log[n]))
        /\ log[n].writes # <<>>
        /\ log[n - 1].writes # <<>>

(* C7: the first copy of a file of raw_includes is the lines of the file that
   do not start with #include "gamepad, every one of them and in the order of
   the file; so no line of the copy starts with that prefix. *)
C7_IncludeStripping ==
    \A n \in 1..Len(log) :
        log[n].kind = "raw" =>
            LET F == FileOf(log[n])
                w == log[n].writes
                kept == (1..Len(F)) \ StrippedAt(F)
            IN  /\ \A m \in 1..Len(w) : ~startswith(w[m], GAMEPAD_PREFIX)
                /\ Len(w) = Cardinality(kept)
                /\ \A m \in 1..Len(w) :
                       w[m] = F[CHOOSE q \in kept :
                                    Cardinality({r \in kept : r <= q}) = m]

C7_Witness ==
    \E n \in 1..Len(log) :
        /\ log[n].kind = "raw"
        /\ log[n].writes # <<>>
        /\ \E q \in StrippedAt(FileOf(log[n])) : rstrip(FileOf(log[n])[q]) # TRIGGER

\* the middle lines the loop of line 36 is done with
Handled == IF pc \in {"read", "scan"} THEN 0
           ELSE IF pc = "done" THEN Len(middle_bits) ELSE j - 1

(* C8: the middle lines written as themselves are exactly those that do not
   start with #include, each as its content and a line feed, in their order
   and at their place among the expansions; no middle line that starts with
   #include is written as itself. *)
C8_Passthrough ==
    LET block == SelectSeq(log, LAMBDA e : e.kind \in {"plain", "raw", "suffix"})
        plain == SelectSeq(log, LAMBDA e : e.kind = "plain")
        kept == SelectSeq(SubSeq(middle_bits, 1, Handled),
                          LAMBDA l : ~startswith(l, INCLUDE_PREFIX))
    IN  /\ Len(plain) = Len(kept)
        /\ \A n \in 1..Len(plain) :
               /\ plain[n].writes = << kept[n] \o <<NL>> >>
               /\ middle_bits[plain[n].idx] = kept[n]
        /\ \A a, b \in 1..Len(block) :
               a < b => /\ block[a].idx <= block[b].idx
                        /\ block[a].kind = "plain" => block[a].idx < block[b].idx

C8_Witness ==
    /\ pc = "done"
    /\ \E a, b \in 1..Len(log) :
           /\ a < b
           /\ log[a].kind = "suffix" /\ log[a].writes # <<>>
           /\ log[b].kind = "plain"

(* C9: an include whose path cannot be opened ends the run in the error state
   at that line: no include with an unreadable path is passed over, and in the
   error state nothing of that line, of a later middle line or of second_half
   has been written, the output is what was written before (the head and the
   earlier expansions), and no step follows. *)
C9_FailFast ==
    /\ \A n \in 1..Handled :
           startswith(middle_bits[n], INCLUDE_PREFIX)
               => PathOf(middle_bits[n]) \in DOMAIN files
    /\ pc = "error" =>
           /\ j <= Len(middle_bits)
           /\ startswith(middle_bits[j], INCLUDE_PREFIX)
           /\ PathOf(middle_bits[j]) \notin DOMAIN files
           /\ log # <<>> /\ log[1].kind = "head"
           /\ \A n \in 2..Len(log) : log[n].kind # "tail" /\ log[n].idx < j
           /\ out = TextOf(log)
           /\ aux = <<>>
           /\ ~ENABLED Next

C9_Witness ==
    /\ pc = "error"
    /\ j > 1
    /\ Expansion # <<>>

(* C10, as claimed: of a file without the trigger line, in raw_includes or
   not, nothing is written, and the run does not fail on it. *)
C10_Original ==
    /\ \A n \in 1..Len(log) :
           (log[n].kind \in {"raw", "suffix"} /\ TriggerAt(FileOf(log[n])) = {})
               => log[n].writes = <<>>
    /\ pc = "error" => PathOf(middle_bits[j]) \notin DOMAIN files

(* C10, amended: of a file without the trigger line the second pass writes
   nothing, so nothing is written of a file that is not in raw_includes; of a
   file of raw_includes the first pass still writes every line that does not
   start with #include "gamepad. The run does not fail on such a file. *)
C10_MissingTrigger ==
    /\ \A n \in 1..Len(log) :
           (log[n].kind = "suffix" /\ TriggerAt(FileOf(log[n])) = {})
               => log[n].writes = <<>>
    /\ \A n \in 1..Len(log) :
           (log[n].kind = "raw" /\ TriggerAt(FileOf(log[n])) = {})
               => /\ log[n].writes =
                         SelectSeq(FileOf(log[n]),
                                   LAMBDA l : ~startswith(l, GAMEPAD_PREFIX))
                  /\ n < Len(log) =>
                         log[n + 1].kind = "suffix" /\ log[n + 1].idx = log[n].idx
    /\ pc = "error" => PathOf(middle_bits[j]) \notin DOMAIN files

C10_Witness ==
    /\ pc = "done"
    /\ \E n \in 1..(Len(log) - 1) :
           /\ log[n].kind = "raw"
           /\ TriggerAt(FileOf(log[n])) = {}
           /\ log[n].writes # <<>>
           /\ log[n + 1].kind = "suffix" /\ log[n + 1].writes = <<>>

\* the open calls made for the middle line n
OpensOf(n) == SelectSeq(opens, LAMBDA o : o.idx = n)

(* C11: at most one auxiliary file is open at any point, and none between two
   middle lines; every pass is finished and its file closed before the next
   open; an include the loop is done with has had two passes over its path
   if its basename is in raw_includes and one otherwise, and a line that is
   no include has had none. *)
C11_FileAccess ==
    LET good == SelectSeq(opens, LAMBDA o : o.ok)
        copies == SelectSeq(log, LAMBDA e : e.kind \in {"raw", "suffix"})
    IN  /\ Len(aux) <= 1
        /\ aux # <<>> <=> pc \in {"raw", "suffix"}
        /\ aux # <<>> => aux = <<PathOf(middle_bits[j])>>
        /\ Len(good) = Len(copies) + Len(aux)
        /\ \A n \in 1..Len(copies) : copies[n].idx = good[n].idx
        /\ \A n \in 1..Handled :
               IF startswith(middle_bits[n], INCLUDE_PREFIX)
               THEN /\ Len(OpensOf(n)) =
                           IF Last(split(PathOf(middle_bits[n]), "/")) \in raw_includes
                           THEN 2 ELSE 1
                    /\ \A m \in 1..Len(OpensOf(n)) :
                           OpensOf(n)[m].path = PathOf(middle_bits[n]) /\ OpensOf(n)[m].ok
               ELSE OpensOf(n) = <<>>

C11_Witness ==
    /\ pc = "done"
    /\ \E a, b \in 1..Len(middle_bits) : Len(OpensOf(a)) = 2 /\ Len(OpensOf(b)) = 1

(* C12: a second run of the script on the same primary file and the same
   auxiliary files ends as the first did, in an error or not, and leaves the
   same text in the output file. *)
C12_Determinism ==
    (prev # <<>> /\ pc \in {"done", "error"}) =>
        /\ pc = prev[1].pc
        /\ out = prev[1].out

C12_Witness ==
    /\ prev # <<>>
    /\ pc = "done"
    /\ Expansion # <<>>
    /\ first_half # <<>>

\* the smallest number of a non-empty set of numbers
Least(S) == CHOOSE n \in S : \A m \in S : n <= m

\* a raw line that is empty or holds whitespace only
BlankRaw(l) == \A k \in 1..Len(l) : l[k] \in Whitespace

\* the classified lines that equal the marker, and those after the position m
\* that are blank
MarkersSeen == {n \in 1..(i - 1) : n <= Len(lines) /\ lines[n] = INCLUDES_MARKER}
BlanksSeen(m) == {n \in (m + 1)..(i - 1) : n <= Len(lines) /\ BlankRaw(primary[n])}

(* C13: the state is FIRST_HALF until the first line equal to the marker,
   MIDDLE from there until the first empty or whitespace-only line after it,
   and SECOND_HALF from there on; every other line, later marker lines and
   later blank lines included, is in the buffer of the state it was read in,
   so without a blank line after the marker the whole remainder is
   middle_bits and second_half is empty. The state only steps from FIRST_HALF
   to MIDDLE and from MIDDLE to SECOND_HALF. *)
C13_ForwardOnly ==
    /\ [](IF MarkersSeen = {}
          THEN /\ state = "FIRST_HALF"
               /\ first_half = SubSeq(lines, 1, i - 1)
               /\ middle_bits = <<>> /\ second_half = <<>>
          ELSE LET m == Least(MarkersSeen)
               IN  /\ first_half = SubSeq(lines, 1, m - 1)
                   /\ IF BlanksSeen(m) = {}
                      THEN /\ state = "MIDDLE"
                           /\ middle_bits = SubSeq(lines, m + 1, i - 1)
                           /\ second_half = <<>>
                      ELSE LET b == Least(BlanksSeen(m))
                           IN  /\ state = "SECOND_HALF"
                               /\ middle_bits = SubSeq(lines, m + 1, b - 1)
                               /\ second_half = SubSeq(lines, b + 1, i - 1))
    /\ [][state' # state =>
              <<state, state'>> \in { <<"FIRST_HALF", "MIDDLE">>,
                                      <<"MIDDLE", "SECOND_HALF">> }]_vars

C13_Witness ==
    /\ pc = "done"
    /\ state = "SECOND_HALF"
    /\ \E n \in 1..Len(second_half) : second_half[n] \in {<<>>, INCLUDES_MARKER}
    /\ \E n \in 1..Len(primary) : BlankRaw(primary[n]) /\ primary[n] # <<NL>>

\* the entries of log of the given kind made for the middle line n
EntriesOf(kind, n) == SelectSeq(log, LAMBDA e : e.kind = kind /\ e.idx = n)

\* the position in log of the entry of the given kind made for the middle line n
PlaceOf(kind, n) == CHOOSE k \in 1..Len(log) : log[k].kind = kind /\ log[k].idx = n

(* C14: for every include the loop is done with, the filtered full copy is
   written if and only if the part of the path after its last "/" is
   Gamepad.h, Gamepad_private.h or Gamepad_private.c, whatever the directory;
   the suffix copy is written in both cases, right after the full copy when
   there is one. *)
C14_BasenameDecides ==
    \A n \in 1..Handled :
        startswith(middle_bits[n], INCLUDE_PREFIX) =>
            LET path == PathOf(middle_bits[n])
                listed == Last(split(path, "/"))
                              \in {GamepadH, GamepadPrivateH, GamepadPrivateC}
            IN  /\ Len(EntriesOf("suffix", n)) = 1
                /\ EntriesOf("suffix", n)[1].writes = SuffixFrom(files[path], FALSE)
                /\ Len(EntriesOf("raw", n)) = IF listed THEN 1 ELSE 0
                /\ listed =>
                       /\ PlaceOf("suffix", n) = PlaceOf("raw", n) + 1
                       /\ EntriesOf("raw", n)[1].writes =
                              SelectSeq(files[path],
                                        LAMBDA l : ~startswith(l, GAMEPAD_PREFIX))

C14_Witness ==
    /\ pc = "done"
    /\ \E a, b \in 1..Len(middle_bits) :
           /\ middle_bits[a] = IncludeOf(YGamepadPath)
           /\ Len(EntriesOf("raw", a)) = 1 /\ EntriesOf("raw", a)[1].writes # <<>>
           /\ middle_bits[b] = IncludeOf(NearPath)
           /\ EntriesOf("raw", b) = <<>> /\ Len(EntriesOf("suffix", b)) = 1

\* where in the output the m-th write of the n-th entry of log begins and ends
StartOf(n, m) ==
    Len(TextOf(SubSeq(log, 1, n - 1))) + Len(Flatten(SubSeq(log[n].writes, 1, m - 1)))
EndOf(n, m) == StartOf(n, m) + Len(log[n].writes[m])

(* C15: every line copied from an auxiliary file is an output line of its
   own: it begins at the beginning of an output line, and it ends in a line
   feed or is followed by one (or by nothing), so that nothing written after
   it is on its line, also when it is the last line of its file and has no
   line feed. *)
C15_LineBoundaries ==
    \A n \in 1..Len(log) :
        log[n].kind \in {"raw", "suffix"} =>
            \A m \in 1..Len(log[n].writes) :
                LET w == log[n].writes[m]
                IN  /\ StartOf(n, m) = 0 \/ out[StartOf(n, m)] = NL
                    /\ \/ w # <<>> /\ w[Len(w)] = NL
                       \/ EndOf(n, m) = Len(out)
                       \/ out[EndOf(n, m) + 1] = NL

\* the last whitespace-separated token of a line that does not end in whitespace
LastToken(s) ==
    LET ws == {n \in 1..Len(s) : s[n] \in Whitespace}
    IN  IF ws = {} THEN s
        ELSE SubSeq(s, (CHOOSE n \in ws : \A m \in ws : m <= n) + 1, Len(s))

(* C16: the path of every open call is the last whitespace-separated token of
   its include line, a space or a tab separating the tokens, without its
   first and its last character. *)
C16_PathExtraction ==
    \A n \in 1..Len(opens) :
        opens[n].path = Inner(LastToken(middle_bits[opens[n].idx]))

\* the content of a raw line: the line without its line feed
Content(l) == IF l # <<>> /\ l[Len(l)] = NL THEN SubSeq(l, 1, Len(l) - 1) ELSE l

\* the raw lines of the primary file that were classified into first_half and
\* into second_half: its first and its last lines
PrologueRaw == SubSeq(primary, 1, Len(first_half))
EpilogueRaw == SubSeq(primary, Len(primary) - Len(second_half) + 1, Len(primary))

(* C17, as claimed: the output begins with the prologue lines and ends with the
   epilogue lines, each with the content it has in the primary file, trailing
   whitespace included. *)
C17_Original ==
    pc = "done" =>
        out = join(<<NL>>, [n \in 1..Len(PrologueRaw) |-> Content(PrologueRaw[n])])
              \o <<NL>> \o Expansion \o <<NL>>
              \o join(<<NL>>, [n \in 1..Len(EpilogueRaw) |-> Content(EpilogueRaw[n])])

(* C17, amended: the output begins with the prologue lines and ends with the
   epilogue lines, each with the content it has in the primary file less its
   trailing whitespace. *)
C17_PassThrough ==
    pc = "done" =>
        out = join(<<NL>>, [n \in 1..Len(PrologueRaw) |-> rstrip(PrologueRaw[n])])
              \o <<NL>> \o Expansion \o <<NL>>
              \o join(<<NL>>, [n \in 1..Len(EpilogueRaw) |-> rstrip(EpilogueRaw[n])])

C17_Witness ==
    /\ pc = "done"
    /\ \E n \in 1..Len(PrologueRaw) : rstrip(PrologueRaw[n]) # Content(PrologueRaw[n])
    /\ \E n \in 1..Len(EpilogueRaw) : rstrip(EpilogueRaw[n]) # Content(EpilogueRaw[n])
    /\ Expansion # <<>>

\* what is left to do: the part of the script, the lines left in its loop, and
\* the steps left on the current middle line
Measure ==
    CASE pc = "read" -> <<3, 0, 0>>
      [] pc = "scan" -> <<2, Len(lines) + 1 - i, 0>>
      [] pc = "block" -> <<1, Len(middle_bits) + 1 - j, 3>>
      [] pc = "raw" -> <<1, Len(middle_bits) + 1 - j, 2>>
      [] pc = "reopen" -> <<1, Len(middle_bits) + 1 - j, 1>>
      [] pc = "suffix" -> <<1, Len(middle_bits) + 1 - j, 0>>
      [] OTHER -> <<0, 0, 0>>

\* the lexicographic order of such triples
Less(a, b) ==
    \/ a[1] < b[1]
    \/ a[1] = b[1] /\ a[2] < b[2]
    \/ a[1] = b[1] /\ a[2] = b[2] /\ a[3] < b[3]

IncludeLines == {n \in 1..Len(middle_bits) : startswith(middle_bits[n], INCLUDE_PREFIX)}

(* C18: files are opened for the include lines of middle_bits only, with the
   path of that line, at most twice per line; what is copied from a file is
   lines of that file as they are, include lines among them, and no file is
   opened for them. The run always ends: unless it is done or in the error
   state a step is possible, and every step makes what is left to do smaller. *)
C18_OneLevelTerminates ==
    /\ [](/\ pc \in {"done", "error"} \/ ENABLED Next
          /\ \A k \in 1..3 : Measure[k] >= 0
          /\ Len(opens) <= 2 * Cardinality(IncludeLines)
          /\ \A n \in 1..Len(opens) :
                 /\ opens[n].idx \in IncludeLines
                 /\ opens[n].path = PathOf(middle_bits[opens[n].idx])
                 /\ Len(OpensOf(opens[n].idx)) <= 2
          /\ \A n \in 1..Len(log) :
                 log[n].kind \in {"raw", "suffix"} =>
                     \A m \in 1..Len(log[n].writes) :
                         \E k \in 1..Len(FileOf(log[n])) :
                             FileOf(log[n])[k] = log[n].writes[m])
    /\ [][Less(Measure', Measure)]_vars

C18_Witness ==
    /\ pc = "done"
    /\ middle_bits = <<IncludeOf(GamepadPath)>>
    /\ Len(opens) = 2
    /\ \E n \in 1..Len(log) :
           /\ log[n].kind = "suffix"
           /\ \E m \in 1..Len(log[n].writes) :
                  rstrip(log[n].writes[m]) = IncludeOf(GamepadPath)

====
